---- MODULE Spec2Model ----
(***************************************************************************)
(* ModelSimple of text_classification_model_simple.py: the tensors of one  *)
(* forward pass (model, model_embedded_sequence), the one-hot targets      *)
(* (targets) and the training op (optimize).  Tensors are sequences; a     *)
(* matrix is a sequence of rows.  TLA+ sequences start at 1, the tensors   *)
(* of the code at 0: row b of the code is element b + 1 here, while the    *)
(* VALUES held in tensors (token ids, flat gather indexes, labels) are the *)
(* code's own 0-based numbers.                                             *)
(***************************************************************************)
EXTENDS Integers, Sequences, FiniteSets

VARIABLES
    device,             \* kernel set the graph runs on: "cpu" or "gpu"
    status,             \* "fed" before the run, then "ok" or "InvalidArgumentError"
    input_text,         \* the fed batch [batch_size, text_vector_max_length]
    sequence_length,    \* line 72
    split_sizes,        \* line 78: <<max_sequence_length, empty_padding_lenght>>
    input_text_split,   \* line 78: input_text after the split
    embedded_sequence,  \* line 88
    indexes,            \* line 47
    output,             \* line 48: the cell of sequence_output gathered per row
    labels,             \* targets: the fed labels
    output_classes,     \* targets: depth
    targets_out,        \* targets: the returned matrix
    learning_rate_initial, learning_rate_decay, learning_rate_decay_steps,
    has_gradient,       \* per variable: compute_gradients yields a tensor (not None)
    initial_step,       \* global_step when the training op was built
    global_step,
    learning_rate,      \* value of the learning_rate tensor at global_step
    gradients,          \* line 138: raw gradients of the last execution
    applied,            \* line 148: variable name -> gradient given to apply_gradients
    runs                \* executions of the training op so far

vars == <<device, status, input_text, sequence_length, split_sizes, input_text_split,
          embedded_sequence, indexes, output, labels, output_classes, targets_out,
          learning_rate_initial, learning_rate_decay, learning_rate_decay_steps,
          has_gradient, initial_step, global_step, learning_rate, gradients,
          applied, runs>>

modelVars == <<device, status, input_text, sequence_length, split_sizes,
               input_text_split, embedded_sequence, indexes, output>>
targetVars == <<labels, output_classes, targets_out>>
optimizeVars == <<learning_rate_initial, learning_rate_decay, learning_rate_decay_steps,
                  has_gradient, initial_step, global_step, learning_rate, gradients,
                  applied, runs>>

(***************************************************************************)
(* Bounds of the model.                                                    *)
(***************************************************************************)
MaxBatch == 2
MaxWidth == 2

(***************************************************************************)
(* The caller's embeddings table (a List[List[float]]); row k is the       *)
(* vector of token id k.  Its entries are arbitrary non-zero numbers.      *)
(***************************************************************************)
Embeddings == << <<1, 2>>, <<3, 4>> >>

\* Entries a fed batch may hold: the token ids of the table and two negative ids.
TokenIds == 0 .. (Len(Embeddings) - 1)
PaddingIds == {-1, -2}
InputEntries == TokenIds \cup PaddingIds

Devices == {"cpu", "gpu"}

(***************************************************************************)
(* Library primitives, as TensorFlow computes them.                        *)
(***************************************************************************)
RECURSIVE ReduceSum(_)
ReduceSum(row) ==
    IF row = <<>> THEN 0 ELSE Head(row) + ReduceSum(Tail(row))

Maximum(x, y) == IF x >= y THEN x ELSE y

RECURSIVE ReduceMax(_)
ReduceMax(vec) ==
    IF Len(vec) = 1 THEN vec[1]
    ELSE Maximum(vec[1], ReduceMax(Tail(vec)))

\* tf.cast(mask, tf.int32)
CastInt32(b) == IF b THEN 1 ELSE 0

\* tf.split(row, [n1, n2], axis=1) on one row: the two pieces
SplitRow(row, sizes) ==
    << SubSeq(row, 1, sizes[1]), SubSeq(row, sizes[1] + 1, sizes[1] + sizes[2]) >>

\* an index a gather kernel accepts for a params tensor of `n` rows
InRange(i, n) == 0 <= i /\ i < n

\* the value of a tensor once computed: the sequence of its elements
Value(f) == f \o <<>>

ZeroVector(n) == Value([k \in 1..n |-> 0])

(***************************************************************************)
(* model_embedded_sequence, lines 61-89.                                   *)
(***************************************************************************)
\* variant of Mask that counts only ids above 0
MaskStrict(text) ==
    [b \in 1..Len(text) |-> [t \in 1..Len(text[b]) |-> text[b][t] > 0]]

\* line 71: true for words, false for padding
Mask(text) ==
    [b \in 1..Len(text) |-> [t \in 1..Len(text[b]) |-> text[b][t] >= 0]]

\* line 72
SequenceLength(text) ==
    Value([b \in 1..Len(text) |->
        ReduceSum(Value([t \in 1..Len(text[b]) |-> CastInt32(Mask(text)[b][t])]))])

\* line 75
MaxSequenceLength(seq_len) == ReduceMax(seq_len)

\* line 76
InputTextLength(text) == Len(text[1])

\* variant of SplitSizes that gives the split the sizes in the other order
SplitSizesSwapped(text, seq_len) ==
    << InputTextLength(text) - MaxSequenceLength(seq_len), MaxSequenceLength(seq_len) >>

\* lines 75-78: the size_splits argument of tf.split
SplitSizes(text, seq_len) ==
    << MaxSequenceLength(seq_len), InputTextLength(text) - MaxSequenceLength(seq_len) >>

\* line 78: the first piece of the split
InputTextSplit(text, sizes) ==
    Value([b \in 1..Len(text) |-> SplitRow(text[b], sizes)[1]])

\* lines 83-85: a zeros vector, then the caller's table
EmbeddingsTable(embeddings) ==
    << ZeroVector(Len(embeddings[1])) >> \o embeddings

\* line 87
AddOne(text) ==
    Value([b \in 1..Len(text) |-> Value([t \in 1..Len(text[b]) |-> text[b][t] + 1])])

\* line 88: some id is outside the table
LookupOutOfRange(table, ids) ==
    \E b \in 1..Len(ids) : \E t \in 1..Len(ids[b]) : ~InRange(ids[b][t], Len(table))

\* line 88: tf.nn.embedding_lookup.  An id outside the table is rejected by the
\* cpu kernel (the run fails) and yields a zeros vector on the gpu kernel.
EmbeddingLookup(table, ids) ==
    Value([b \in 1..Len(ids) |->
        Value([t \in 1..Len(ids[b]) |->
            IF InRange(ids[b][t], Len(table)) THEN table[ids[b][t] + 1]
            ELSE ZeroVector(Len(table[1]))])])

(***************************************************************************)
(* model, lines 29-48.  The recurrent output of row b at timestep t is     *)
(* kept as the cell [row |-> b, step |-> t] it comes from.                 *)
(***************************************************************************)
NoCell == [row |-> -1, step |-> -1]

\* line 42: sequence_output, [batch_size, max_length, num_hidden]
SequenceOutput(batch_size, max_length) ==
    Value([b \in 1..batch_size |->
        Value([t \in 1..max_length |-> [row |-> b - 1, step |-> t - 1]])])

\* line 46: tf.reshape to [batch_size * max_length, num_hidden], row-major
Reshape(sequence_output, batch_size, max_length) ==
    Value([i \in 1..(batch_size * max_length) |->
        sequence_output[((i - 1) \div max_length) + 1][((i - 1) % max_length) + 1]])

\* line 47
Indexes(batch_size, max_length, seq_len) ==
    Value([b \in 1..batch_size |-> (b - 1) * max_length + (seq_len[b] - 1)])

\* line 48: some index is outside the reshaped output
GatherOutOfRange(params, idx) ==
    \E b \in 1..Len(idx) : ~InRange(idx[b], Len(params))

\* line 48: tf.gather, with the kernels' treatment of an index out of range
Gather(params, idx) ==
    Value([b \in 1..Len(idx) |->
        IF InRange(idx[b], Len(params)) THEN params[idx[b] + 1] ELSE NoCell])

\* lines 80-89: the lookup and the returned pair, with the tensors on the way
EmbedSplit(table, text, seq_len, sizes) ==
    [sequence_length |-> seq_len,
     split_sizes |-> sizes,
     input_text_split |-> text,
     out_of_range |-> LookupOutOfRange(table, AddOne(text)),
     embedded_sequence |-> EmbeddingLookup(table, AddOne(text))]

\* lines 74-78
EmbedTruncated(embeddings, text, seq_len, sizes) ==
    EmbedSplit(EmbeddingsTable(embeddings), InputTextSplit(text, sizes), seq_len, sizes)

\* lines 70-78
EmbedMasked(embeddings, text, seq_len) ==
    EmbedTruncated(embeddings, text, seq_len, SplitSizes(text, seq_len))

\* lines 61-89
model_embedded_sequence(embeddings, text) ==
    EmbedMasked(embeddings, text, SequenceLength(text))

\* lines 46-48 on cpu kernels: an index out of range fails the run
GatherCpu(flat, idx) ==
    /\ indexes' = idx
    /\ IF GatherOutOfRange(flat, idx)
       THEN status' = "InvalidArgumentError" /\ output' = <<>>
       ELSE status' = "ok" /\ output' = Gather(flat, idx)

\* lines 46-48 on gpu kernels: an index out of range gathers zeros
GatherGpu(flat, idx) ==
    /\ indexes' = idx
    /\ status' = "ok"
    /\ output' = Gather(flat, idx)

\* lines 30, 42-48: batch_size and max_length are the shape of embedded_sequence
LastOutput(batch_size, max_length, seq_len) ==
    IF device = "cpu"
    THEN GatherCpu(Reshape(SequenceOutput(batch_size, max_length), batch_size, max_length),
                   Indexes(batch_size, max_length, seq_len))
    ELSE GatherGpu(Reshape(SequenceOutput(batch_size, max_length), batch_size, max_length),
                   Indexes(batch_size, max_length, seq_len))

\* lines 29-48 given what model_embedded_sequence returned
ModelRun(embedded) ==
    /\ sequence_length' = embedded.sequence_length
    /\ split_sizes' = embedded.split_sizes
    /\ input_text_split' = embedded.input_text_split
    /\ IF device = "cpu" /\ embedded.out_of_range
       THEN /\ status' = "InvalidArgumentError"
            /\ embedded_sequence' = <<>>
            /\ indexes' = <<>>
            /\ output' = <<>>
       ELSE /\ embedded_sequence' = embedded.embedded_sequence
            /\ LastOutput(Len(embedded.embedded_sequence),
                          Len(embedded.embedded_sequence[1]),
                          embedded.sequence_length)

\* One run of the graph built by model (lines 29-48) on the fed batch.
model ==
    /\ status = "fed"
    /\ ModelRun(model_embedded_sequence(Embeddings, input_text))
    /\ UNCHANGED <<device, input_text, targetVars, optimizeVars>>

\* the batches a dataset can feed, within the bounds
Batches ==
    UNION { [1..n -> [1..w -> InputEntries]] : n \in 1..MaxBatch, w \in 1..MaxWidth }

IdleModel ==
    /\ device = "cpu" /\ status = "idle" /\ input_text = <<>> /\ sequence_length = <<>>
    /\ split_sizes = <<>> /\ input_text_split = <<>> /\ embedded_sequence = <<>>
    /\ indexes = <<>> /\ output = <<>>

IdleTargets == labels = <<>> /\ output_classes = 0 /\ targets_out = <<>>

IdleOptimize ==
    /\ learning_rate_initial = <<0, 1>> /\ learning_rate_decay = <<1, 1>>
    /\ learning_rate_decay_steps = 1 /\ has_gradient = <<>> /\ initial_step = 0
    /\ global_step = 0 /\ learning_rate = <<0, 1>> /\ gradients = <<>>
    /\ applied = <<>> /\ runs = 0

\* a batch is fed to a graph placed on one of the devices; nothing has run yet
InitModel ==
    /\ device \in Devices
    /\ input_text \in Batches
    /\ status = "fed"
    /\ sequence_length = <<>> /\ split_sizes = <<>> /\ input_text_split = <<>>
    /\ embedded_sequence = <<>> /\ indexes = <<>> /\ output = <<>>
    /\ IdleTargets /\ IdleOptimize

NextModel == model

SpecModel == InitModel /\ [][NextModel]_vars

(***************************************************************************)
(* targets, lines 98-106.                                                  *)
(***************************************************************************)
MaxLabels == 2
MaxClasses == 3

\* variant of OneHot that puts on_value one place to the right
OneHotShifted(indices, depth, on_value, off_value) ==
    Value([i \in 1..Len(indices) |->
        Value([j \in 1..depth |-> IF indices[i] = j - 2 THEN on_value ELSE off_value])])

\* tf.one_hot(indices, depth, on_value, off_value, axis=-1): column j of the
\* code is element j + 1 here; an index outside 0..depth-1 gives a row of off_value
OneHot(indices, depth, on_value, off_value) ==
    Value([i \in 1..Len(indices) |->
        Value([j \in 1..depth |-> IF indices[i] = j - 1 THEN on_value ELSE off_value])])

\* lines 105-106
targets ==
    /\ targets_out = <<>>
    /\ targets_out' = OneHot(labels, output_classes, 1, 0)
    /\ UNCHANGED <<labels, output_classes, modelVars, optimizeVars>>

\* the label vectors a dataset can feed: class ids, and ids just outside them
LabelVectors(classes) ==
    UNION { [1..n -> (-1)..classes] : n \in 1..MaxLabels }

InitTargets ==
    /\ output_classes \in 1..MaxClasses
    /\ labels \in LabelVectors(output_classes)
    /\ targets_out = <<>>
    /\ IdleModel /\ IdleOptimize

NextTargets == targets

SpecTargets == InitTargets /\ [][NextTargets]_vars

(***************************************************************************)
(* optimize, lines 119-150.  Real numbers are exact rationals <<num, den>> *)
(* with den > 0.  A gradient tensor is kept as [value, scale2]: it stands  *)
(* for (value / Resolution) * sqrt(scale2), value an integer and scale2 a  *)
(* rational, so that the factor of clip_by_global_norm, a square root, is  *)
(* kept exact.  compute_gradients yields None for a variable the loss does *)
(* not depend on.                                                          *)
(***************************************************************************)
NumVariables == 2
MaxGrad == 1
Resolution == 1
MaxStep == 4

\* clip_norm of line 147
ClipNorm == 1

RatMul(a, b) == << a[1] * b[1], a[2] * b[2] >>
RatAdd(a, b) == << a[1] * b[2] + b[1] * a[2], a[2] * b[2] >>
RatLeq(a, b) == a[1] * b[2] <= b[1] * a[2]
RatEq(a, b) == a[1] * b[2] = b[1] * a[2]
RatMin(a, b) == IF RatLeq(a, b) THEN a ELSE b

RECURSIVE Pow(_, _)
Pow(x, n) == IF n = 0 THEN 1 ELSE x * Pow(x, n - 1)

None == [is_none |-> TRUE]
Tensor(v, s2) == [is_none |-> FALSE, value |-> v, scale2 |-> s2]

\* variant of ExponentialDecay that decays with every step (no staircase)
ExponentialDecayEveryStep(rate, step, decay_steps, decay_rate) ==
    << rate[1] * Pow(decay_rate[1], step), rate[2] * Pow(decay_rate[2], step) >>

\* lines 132-135: tf.train.exponential_decay(..., staircase=True):
\* rate * decay_rate ^ floor(step / decay_steps)
ExponentialDecay(rate, step, decay_steps, decay_rate) ==
    << rate[1] * Pow(decay_rate[1], step \div decay_steps),
       rate[2] * Pow(decay_rate[2], step \div decay_steps) >>

\* line 138: optimizer.compute_gradients(loss): a list of (gradient, variable);
\* the variables are named 1..NumVariables, `grads` are the gradients of the
\* loss on the current batch
ComputeGradients(grads) ==
    Value([i \in 1..Len(grads) |-> << grads[i], i >>])

\* line 138: zip(*pairs)
Unzip(pairs) ==
    << Value([i \in 1..Len(pairs) |-> pairs[i][1]]),
       Value([i \in 1..Len(pairs) |-> pairs[i][2]]) >>

\* variant of Zip that pairs the gradients in reverse order
ZipReversed(xs, ys) ==
    Value([i \in 1..Len(xs) |-> << xs[Len(xs) + 1 - i], ys[i] >>])

\* line 148: zip(gradients, variables)
Zip(xs, ys) ==
    Value([i \in 1..Len(xs) |-> << xs[i], ys[i] >>])

\* the square of the number a tensor stands for
TensorSquare(t) ==
    << t.value * t.value * t.scale2[1], Resolution * Resolution * t.scale2[2] >>

\* tf.global_norm, squared: the sum of squares over the tensors that are not None
RECURSIVE GlobalNormSquared(_)
GlobalNormSquared(t_list) ==
    IF t_list = <<>> THEN <<0, 1>>
    ELSE IF Head(t_list).is_none THEN GlobalNormSquared(Tail(t_list))
    ELSE RatAdd(TensorSquare(Head(t_list)), GlobalNormSquared(Tail(t_list)))

\* clip_by_global_norm: scale = clip_norm * min(1 / norm, 1 / clip_norm), squared;
\* 1 / norm is infinite for a zero norm
ClipScaleSquared(norm2, clip_norm) ==
    IF norm2[1] = 0 THEN <<1, 1>>
    ELSE RatMul(<< clip_norm * clip_norm, 1 >>,
                RatMin(<< norm2[2], norm2[1] >>, << 1, clip_norm * clip_norm >>))

Scaled(t, scale2) ==
    IF t.is_none THEN None ELSE Tensor(t.value, RatMul(t.scale2, scale2))

\* variant of ClipByGlobalNorm: every tensor clipped by its own norm (tf.clip_by_norm)
ClipByNormEach(t_list, clip_norm) ==
    Value([i \in 1..Len(t_list) |->
        Scaled(t_list[i], ClipScaleSquared(GlobalNormSquared(<< t_list[i] >>), clip_norm))])

\* line 147: tf.clip_by_global_norm(gradients, 1.0)[0]
ClipByGlobalNorm(t_list, clip_norm) ==
    Value([i \in 1..Len(t_list) |->
        Scaled(t_list[i], ClipScaleSquared(GlobalNormSquared(t_list), clip_norm))])

\* lines 147-148 on the unzipped pairs
ClipAndZip(unzipped) ==
    Zip(ClipByGlobalNorm(unzipped[1], ClipNorm), unzipped[2])

\* line 148: apply_gradients: each variable is updated with the gradient it
\* is paired with (a variable paired with None is left alone)
ApplyGradients(grads_and_vars) ==
    Value([v \in 1..Len(grads_and_vars) |->
        grads_and_vars[CHOOSE i \in 1..Len(grads_and_vars) : grads_and_vars[i][2] = v][1]])

\* One execution of the training op built by optimize (lines 137-149), the
\* loss having the gradients `grads` on the current batch.
optimize(grads) ==
    /\ global_step < MaxStep
    /\ gradients' = grads
    /\ applied' = ApplyGradients(ClipAndZip(Unzip(ComputeGradients(grads))))
    /\ global_step' = global_step + 1
    /\ learning_rate' = ExponentialDecay(learning_rate_initial, global_step + 1,
                                         learning_rate_decay_steps, learning_rate_decay)
    /\ runs' = runs + 1
    /\ UNCHANGED <<learning_rate_initial, learning_rate_decay, learning_rate_decay_steps,
                   has_gradient, initial_step, modelVars, targetVars>>

\* the gradients a batch can produce for the variables that have one
GradientLists ==
    { g \in [1..NumVariables -> {None} \cup {Tensor(v, <<1, 1>>) : v \in (-MaxGrad)..MaxGrad}] :
        \A i \in 1..NumVariables : g[i].is_none = ~has_gradient[i] }

\* values of the configuration: TC_LEARNING_RATE_INITIAL, TC_LEARNING_RATE_DECAY,
\* TC_LEARNING_RATE_DECAY_STEPS, and the global_step a checkpoint restores
InitialRates == { <<1, 100>> }
DecayRates == { <<1, 2>>, <<1, 1>>, <<2, 1>> }
DecaySteps == {1, 2, 3}
RestoredSteps == {0, 1}

InitOptimize ==
    /\ learning_rate_initial \in InitialRates
    /\ learning_rate_decay \in DecayRates
    /\ learning_rate_decay_steps \in DecaySteps
    /\ has_gradient \in { h \in [1..NumVariables -> BOOLEAN] : \E i \in 1..NumVariables : h[i] }
    /\ initial_step \in RestoredSteps
    /\ global_step = initial_step
    /\ learning_rate = ExponentialDecay(learning_rate_initial, global_step,
                                        learning_rate_decay_steps, learning_rate_decay)
    /\ gradients = <<>>
    /\ applied = <<>>
    /\ runs = 0
    /\ IdleModel /\ IdleTargets

NextOptimize == \E grads \in GradientLists : optimize(grads)

SpecOptimize == InitOptimize /\ [][NextOptimize]_vars

(***************************************************************************)
(* Properties of model_embedded_sequence and model.                        *)
(***************************************************************************)
Ran == status # "fed" /\ status # "idle"

\* C1: after a run, sequence_length[b] is the number of entries of row b of
\* input_text that are >= 0, hence between 0 and the width of input_text.
SequenceLengthCountsNonNegative ==
    Ran =>
        /\ Len(sequence_length) = Len(input_text)
        /\ \A b \in 1..Len(input_text) :
            /\ sequence_length[b] =
                 Cardinality({t \in 1..Len(input_text[b]) : input_text[b][t] >= 0})
            /\ 0 <= sequence_length[b]
            /\ sequence_length[b] <= Len(input_text[b])

\* a run on a row that mixes a token with padding
MixedRowCounted ==
    /\ Ran
    /\ \E b \in 1..Len(input_text) :
        /\ sequence_length[b] > 0
        /\ sequence_length[b] < Len(input_text[b])

\* m is the maximum of the vector
IsMaximumOf(m, vec) ==
    /\ \E b \in 1..Len(vec) : vec[b] = m
    /\ \A b \in 1..Len(vec) : vec[b] <= m

\* C2: the split sizes are non-negative and sum to the width of input_text;
\* the first is the maximum of sequence_length; the truncated text and the
\* embedded sequence hold, per row, exactly the first that-many columns of
\* input_text in their order.
TruncatedToMaxSequenceLength ==
    Ran =>
        /\ split_sizes[1] >= 0
        /\ split_sizes[2] >= 0
        /\ split_sizes[1] + split_sizes[2] = Len(input_text[1])
        /\ IsMaximumOf(split_sizes[1], sequence_length)
        /\ Len(input_text_split) = Len(input_text)
        /\ \A b \in 1..Len(input_text) :
            /\ Len(input_text_split[b]) = split_sizes[1]
            /\ \A t \in 1..split_sizes[1] : input_text_split[b][t] = input_text[b][t]
        /\ Len(embedded_sequence) > 0 =>
            /\ Len(embedded_sequence) = Len(input_text)
            /\ \A b \in 1..Len(input_text) :
                /\ Len(embedded_sequence[b]) = split_sizes[1]
                /\ \A t \in 1..split_sizes[1] :
                    input_text[b][t] \in TokenIds =>
                        embedded_sequence[b][t] = Embeddings[input_text[b][t] + 1]

\* a run that really truncates: some columns are kept and some are dropped
TruncationHappened ==
    /\ status = "ok"
    /\ split_sizes[1] > 0
    /\ split_sizes[2] > 0
    /\ Len(embedded_sequence) = Len(input_text)

\* C3: every position of the truncated input is embedded: a token id k of the
\* table as the caller's embeddings[k], every entry < 0 as the all-zeros
\* vector, and no lookup is out of range.
TokensAndPaddingEmbedded ==
    Ran =>
        /\ Len(embedded_sequence) = Len(input_text)
        /\ \A b \in 1..Len(input_text) :
            /\ Len(embedded_sequence[b]) = Len(input_text_split[b])
            /\ \A t \in 1..Len(input_text_split[b]) :
                /\ input_text_split[b][t] \in TokenIds =>
                    embedded_sequence[b][t] = Embeddings[input_text_split[b][t] + 1]
                /\ input_text_split[b][t] < 0 =>
                    embedded_sequence[b][t] = ZeroVector(Len(Embeddings[1]))

\* C7: for every row b the flat gather index lies in row b's own block
\* [b * max_length, (b + 1) * max_length) of the reshaped recurrent output,
\* also for a batch with a row that has no non-padding token.
GatherIndexInOwnBlock ==
    status = "ok" =>
        \A b \in 1..Len(indexes) :
            /\ (b - 1) * split_sizes[1] <= indexes[b]
            /\ indexes[b] < b * split_sizes[1]

(***************************************************************************)
(* Properties of targets.                                                  *)
(***************************************************************************)
\* C4: targets returns one row per label, in order, each of length
\* output_classes; the row of a label l with 0 <= l < output_classes holds
\* 1 at index l and 0 elsewhere, so exactly one 1.
TargetsAreOneHot ==
    targets_out # <<>> =>
        /\ Len(targets_out) = Len(labels)
        /\ \A i \in 1..Len(labels) :
            /\ Len(targets_out[i]) = output_classes
            /\ (0 <= labels[i] /\ labels[i] < output_classes) =>
                /\ targets_out[i][labels[i] + 1] = 1
                /\ \A j \in 1..output_classes :
                    j # labels[i] + 1 => targets_out[i][j] = 0
                /\ Cardinality({j \in 1..output_classes : targets_out[i][j] = 1}) = 1

\* targets ran on two different valid labels
TwoLabelsEncoded ==
    /\ targets_out # <<>>
    /\ Len(labels) >= 2
    /\ labels[1] = 0
    /\ labels[2] = output_classes - 1
    /\ output_classes >= 2

(***************************************************************************)
(* Properties of optimize.                                                 *)
(***************************************************************************)
WindowOf(step) == step \div learning_rate_decay_steps

\* C5: the learning rate is learning_rate_initial *
\* learning_rate_decay ^ floor(global_step / learning_rate_decay_steps); a step
\* that stays in the same window of learning_rate_decay_steps steps keeps it,
\* it changes only when global_step crosses a multiple of
\* learning_rate_decay_steps, and for 0 < learning_rate_decay <= 1 it never
\* increases.
LearningRateIsStaircaseDecay ==
    /\ [](learning_rate[1] * learning_rate_initial[2]
              * Pow(learning_rate_decay[2], WindowOf(global_step))
          = learning_rate_initial[1] * Pow(learning_rate_decay[1], WindowOf(global_step))
              * learning_rate[2])
    /\ [][WindowOf(global_step') = WindowOf(global_step)
            => learning_rate' = learning_rate]_vars
    /\ [][~RatEq(learning_rate', learning_rate)
            => WindowOf(global_step') # WindowOf(global_step)]_vars
    /\ [][(0 < learning_rate_decay[1] /\ RatLeq(learning_rate_decay, <<1, 1>>))
            => RatLeq(learning_rate', learning_rate)]_vars

\* the rate has decayed twice, after steps that left it alone
DecayedTwice ==
    /\ runs >= 3
    /\ learning_rate_decay = <<1, 2>>
    /\ learning_rate_decay_steps = 2
    /\ WindowOf(global_step) = 2
    /\ RatEq(learning_rate, RatMul(learning_rate_initial, <<1, 4>>))

\* sum of the squares of the raw gradient values, in units of 1 / Resolution^2
RECURSIVE SumOfSquares(_)
SumOfSquares(t_list) ==
    IF t_list = <<>> THEN 0
    ELSE (IF Head(t_list).is_none THEN 0 ELSE Head(t_list).value * Head(t_list).value)
         + SumOfSquares(Tail(t_list))

\* C6: the gradients given to apply_gradients have a global norm <= 1.0; when
\* the raw global norm is <= 1.0 they are the raw gradients unchanged, otherwise
\* every gradient is the raw one scaled by the same factor 1.0 / global_norm.
GradientsClippedByGlobalNorm ==
    runs > 0 =>
        /\ RatLeq(GlobalNormSquared(applied), <<1, 1>>)
        /\ \A v \in 1..NumVariables :
            ~gradients[v].is_none =>
                /\ ~applied[v].is_none
                /\ applied[v].value = gradients[v].value
                /\ IF SumOfSquares(gradients) <= Resolution * Resolution
                   THEN RatEq(applied[v].scale2, <<1, 1>>)
                   ELSE RatEq(applied[v].scale2,
                              << Resolution * Resolution, SumOfSquares(gradients) >>)

\* an execution whose raw gradients had a global norm above 1.0
ClippingHappened ==
    /\ runs > 0
    /\ SumOfSquares(gradients) > Resolution * Resolution
    /\ \A v \in 1..NumVariables : ~gradients[v].is_none /\ gradients[v].value # 0

\* C8: after n executions global_step is its initial value plus n, and what
\* apply_gradients received for each variable is that variable's own raw
\* gradient of this execution after the clipping (None for a variable
\* without gradient), never the raw gradient when the clipping changes it.
TrainingOpStagesInOrder ==
    /\ global_step = initial_step + runs
    /\ runs > 0 =>
        /\ Len(applied) = NumVariables
        /\ \A v \in 1..NumVariables :
            /\ applied[v] = ClipByGlobalNorm(gradients, ClipNorm)[v]
            /\ applied[v].is_none = ~has_gradient[v]
            /\ (~applied[v].is_none /\ applied[v].value # 0
                /\ SumOfSquares(gradients) > Resolution * Resolution)
                    => applied[v] # gradients[v]

\* two executions, the last with different gradients per variable that were clipped
DistinctGradientsApplied ==
    /\ runs >= 2
    /\ SumOfSquares(gradients) > Resolution * Resolution
    /\ ~gradients[1].is_none /\ ~gradients[2].is_none
    /\ gradients[1].value # gradients[2].value
    /\ applied[1] # applied[2]

====
